---- MODULE Spec2Model ----
(***************************************************************************)
(* CC98-Watchdog: the polling loop of main.py, the CC98Client of cc98.py   *)
(* and the webhook call of dingtalk.py, as one state machine.              *)
(*                                                                         *)
(* Text (titles, times, post contents) is a sequence of Unicode code       *)
(* points, so that lower(), slicing and substring search are computed.     *)
(* Python's None is the value None below for text and "None" for tokens.   *)
(*                                                                         *)
(* Spec is main() against the forum and the webhook, LiveSpec the same     *)
(* with fairness; AuthSpec and BoardSpec are the client on its own, under  *)
(* any sequence of login() and of get_board_name() calls.                  *)
(***************************************************************************)
EXTENDS Integers, Sequences, FiniteSets, TLC

\* ------------------------------------------------------------------ bounds

\* The forum never holds more than MaxTopics topics (ids 1..MaxTopics).
MaxTopics == 2

\* The same bound, for the specification that states fairness.
LiveTopics == 1

\* login() is called at most MaxLogins times on the client on its own.
MaxLogins == 3

\* get_board_name() is called at most MaxLookups times on the client on its
\* own.
MaxLookups == 2

\* ------------------------------------------------------- program constants

\* main.py:42  "459 is the internship / part-time board"
TargetBoard == 459
\* main.py:56  contents longer than this are cut
MaxContent == 500
\* main.py:53  topic.get("time", "")[:19]
TimeLen == 19
\* main.py:84, main.py:103  client.get_new_topics(size=20)
FetchSize == 20
\* main.py:10
DEBUG == FALSE

\* main.py:11-31, one code-point sequence per keyword
KEYWORDS ==
    { <<21069, 31471>>,                                  \* U+524D U+7AEF
      <<32593, 39029>>,                                  \* U+7F51 U+9875
      <<32593, 31449>>,                                  \* U+7F51 U+7AD9
      <<21518, 31471>>,                                  \* U+540E U+7AEF
      <<26381, 21153, 22120>>,                           \* U+670D U+52A1 U+5668
      <<24320, 21457>>,                                  \* U+5F00 U+53D1
      <<31243, 24207>>,                                  \* U+7A0B U+5E8F
      <<102, 117, 108, 108, 115, 116, 97, 99, 107>>,     \* fullstack
      <<102, 114, 111, 110, 116, 101, 110, 100>>,        \* frontend
      <<98, 97, 99, 107, 101, 110, 100>>,                \* backend
      <<119, 101, 98>>,                                  \* web
      <<106, 115>>,                                      \* js
      <<106, 97, 118, 97, 115, 99, 114, 105, 112, 116>>, \* javascript
      <<116, 121, 112, 101, 115, 99, 114, 105, 112, 116>>, \* typescript
      <<114, 101, 97, 99, 116>>,                         \* react
      <<118, 117, 101>>,                                 \* vue
      <<97, 110, 103, 117, 108, 97, 114>>,               \* angular
      <<110, 111, 100, 101>>,                            \* node
      <<104, 116, 109, 108>> }                           \* html

\* -------------------------------------------------------------------- text

\* Python's None where a text is expected (a JSON null).
None == << -1 >>

\* "No content available."  (main.py:128)
NoContentAvailable ==
    <<78, 111, 32, 99, 111, 110, 116, 101, 110, 116, 32, 97, 118, 97, 105,
      108, 97, 98, 108, 101, 46>>
\* "No content."  (main.py:132)
NoContent == <<78, 111, 32, 99, 111, 110, 116, 101, 110, 116, 46>>
\* "..."  (main.py:57)
Ellipsis == <<46, 46, 46>>

\* str.lower() on one code point: A-Z map to a-z, CJK has no case.
LowerChar(c) == IF c >= 65 /\ c <= 90 THEN c + 32 ELSE c

\* str.lower()
Lower(s) == [i \in 1..Len(s) |-> LowerChar(s[i])]

\* `kw in s`: kw occurs in s as a contiguous substring.
Contains(s, kw) ==
    \E i \in 1..(Len(s) - Len(kw) + 1) : SubSeq(s, i, i + Len(kw) - 1) = kw

\* s[:n]
Take(s, n) == SubSeq(s, 1, IF Len(s) < n THEN Len(s) ELSE n)

\* s.replace("T", " ")
ReplaceT(s) == [i \in 1..Len(s) |-> IF s[i] = 84 THEN 32 ELSE s[i]]

\* ------------------------------------------------------------ main.py, pure

\* check_topic_condition raises when the title is a JSON null:
\* topic.get("title", "") is then None and None.lower() is an AttributeError.
CheckRaises(topic) == topic.title = None

\* check_topic_condition (main.py:34-46)
check_topic_condition(topic) ==
    /\ topic.boardId = TargetBoard
    /\ \E kw \in KEYWORDS : Contains(Lower(topic.title), kw)

\* format_message raises a TypeError when time is a JSON null (None[:19])
\* or when the content is None (len(None)).
FormatRaises(topic, content) == topic.time = None \/ content = None

\* format_message (main.py:49-68): the fields of the fixed template.
format_message(topic, board_name, content) ==
    [ board   |-> board_name,
      title   |-> topic.title,
      author  |-> topic.userName,
      time    |-> ReplaceT(Take(topic.time, TimeLen)),
      link    |-> topic.id,
      content |-> IF Len(content) > MaxContent
                  THEN Take(content, MaxContent) \o Ellipsis
                  ELSE content ]

\* max(t.get("id", 0) for t in topics), on a non-empty list (main.py:87)
RECURSIVE MaxIdOf(_)
MaxIdOf(ts) ==
    IF Len(ts) = 1 THEN ts[1].id
    ELSE LET m == MaxIdOf(Tail(ts))
         IN  IF ts[1].id > m THEN ts[1].id ELSE m

\* The mutant of the filter: the topic at the mark is taken again.
RECURSIVE NewerThan_AtLeast(_, _)
NewerThan_AtLeast(ts, mark) ==
    IF ts = << >> THEN << >>
    ELSE IF ts[1].id >= mark
         THEN << ts[1] >> \o NewerThan_AtLeast(Tail(ts), mark)
         ELSE NewerThan_AtLeast(Tail(ts), mark)

\* [t for t in topics if t.get("id", 0) > max_id]  (main.py:115)
RECURSIVE NewerThan(_, _)
NewerThan(ts, mark) ==
    IF ts = << >> THEN << >>
    ELSE IF ts[1].id > mark
         THEN << ts[1] >> \o NewerThan(Tail(ts), mark)
         ELSE NewerThan(Tail(ts), mark)

\* One step of the stable sort: t placed after the last element of the
\* sorted list s whose id is not greater than t's.
RECURSIVE InsertById(_, _)
InsertById(t, s) ==
    IF s = << >> THEN << t >>
    ELSE IF s[1].id <= t.id
         THEN << s[1] >> \o InsertById(t, Tail(s))
         ELSE << t >> \o s

\* The mutant of the sort: the list left in the order the API gave.
SortById_Unsorted(ts) == ts

\* new_topics.sort(key=lambda x: x.get("id", 0))  (main.py:118)
RECURSIVE SortById(_)
SortById(ts) ==
    IF ts = << >> THEN << >>
    ELSE InsertById(ts[Len(ts)], SortById(SubSeq(ts, 1, Len(ts) - 1)))

\* ----------------------------------------------------------- cc98.py, pure

\* Python's None where a string is expected; str(None) is "None".
NoneStr == "None"

\* `not x` for a string or None
Falsy(x) == x = NoneStr \/ x = ""

\* self.board_map = {}  (cc98.py:43)
EmptyMap == << >>

\* self.board_map[k] = v
Put(m, k, v) == [x \in (DOMAIN m) \cup {k} |-> IF x = k THEN v ELSE m[x]]

\* self.board_map.get(k)
Get(m, k) == IF k \in DOMAIN m THEN m[k] ELSE NoneStr

\* The inner loop of _refresh_board_map (cc98.py:60-61)
RECURSIVE WalkBoards(_, _)
WalkBoards(m, boards) ==
    IF boards = << >> THEN m
    ELSE WalkBoards(Put(m, boards[1].id, boards[1].name), Tail(boards))

\* The outer loop (cc98.py:55-61). A root whose "boards" is a JSON null
\* raises a TypeError after the root itself was entered; the except clause
\* ends the walk there.
RECURSIVE WalkRoots(_, _)
WalkRoots(m, roots) ==
    IF roots = << >> THEN m
    ELSE LET m1 == Put(m, roots[1].id, roots[1].name)
         IN  IF roots[1].boards_null THEN m1
             ELSE WalkRoots(WalkBoards(m1, roots[1].boards), Tail(roots))

\* _refresh_board_map (cc98.py:48-64); resp is what GET /board/all did:
\* kind "raise" (the request or its decoding raised), or kind "http" with
\* the decoded hierarchy (status 200) or anything else (get_all_boards
\* then returns []).
refresh_board_map(m, resp) ==
    IF resp.kind = "raise" THEN m
    ELSE IF resp.status # 200 THEN m
    ELSE WalkRoots(m, resp.roots)

\* f"Unknown Board ({board_id})"
UnknownBoard(board_id) == "Unknown Board (" \o ToString(board_id) \o ")"

\* The mutant: a miss gives up without another refresh.
get_board_name_NoRetry(m, board_id, r1, r2) ==
    LET fill   == m = EmptyMap
        m1     == IF fill THEN refresh_board_map(m, r1) ELSE m
        name1  == Get(m1, board_id)
    IN  [ map       |-> m1,
          name      |-> IF Falsy(name1) THEN UnknownBoard(board_id) ELSE name1,
          refreshes |-> IF fill THEN 1 ELSE 0 ]

\* get_board_name (cc98.py:66-79); r1 and r2 are the responses the first
\* and the second refresh get, when they are made.
\* Returns the new map, the name and the number of refreshes made.
get_board_name(m, board_id, r1, r2) ==
    LET fill   == m = EmptyMap
        m1     == IF fill THEN refresh_board_map(m, r1) ELSE m
        name1  == Get(m1, board_id)
        again  == Falsy(name1)
        m2     == IF again THEN refresh_board_map(m1, r2) ELSE m1
        name2  == IF again THEN Get(m2, board_id) ELSE name1
    IN  [ map       |-> m2,
          name      |-> IF Falsy(name2) THEN UnknownBoard(board_id) ELSE name2,
          refreshes |-> (IF fill THEN 1 ELSE 0) + (IF again THEN 1 ELSE 0) ]

\* The mutant: a login that fails forgets the tokens it had.
login_ForgetsOnFailure(c, resp) ==
    IF Falsy(c.client_id) \/ Falsy(c.client_secret)
    THEN [ ok |-> FALSE, requested |-> FALSE,
           access_token |-> c.access_token, refresh_token |-> c.refresh_token,
           auth_header |-> c.auth_header ]
    ELSE IF resp.kind = "http" /\ resp.status = 200 /\ resp.json = "object"
    THEN [ ok |-> TRUE, requested |-> TRUE,
           access_token |-> resp.access_token,
           refresh_token |-> resp.refresh_token,
           auth_header |-> "Bearer " \o resp.access_token ]
    ELSE [ ok |-> FALSE, requested |-> TRUE,
           access_token |-> NoneStr, refresh_token |-> NoneStr,
           auth_header |-> NoneStr ]

\* login (cc98.py:120-159) on the client fields c; resp is what the token
\* endpoint did: kind "raise" (session.post raised) or kind "http" with a
\* status and a body: json "object" with the token_data, "invalid" (not
\* JSON: response.json() raises) or "other" (JSON that is no object:
\* token_data.get raises). Both raises come before the first assignment
\* and are caught at cc98.py:157. A key the object lacks reads as None.
login(c, resp) ==
    IF Falsy(c.client_id) \/ Falsy(c.client_secret)
    THEN [ ok |-> FALSE, requested |-> FALSE,
           access_token |-> c.access_token, refresh_token |-> c.refresh_token,
           auth_header |-> c.auth_header ]
    ELSE IF resp.kind = "http" /\ resp.status = 200 /\ resp.json = "object"
    THEN [ ok |-> TRUE, requested |-> TRUE,
           access_token |-> resp.access_token,
           refresh_token |-> resp.refresh_token,
           auth_header |-> "Bearer " \o resp.access_token ]
    ELSE [ ok |-> FALSE, requested |-> TRUE,
           access_token |-> c.access_token, refresh_token |-> c.refresh_token,
           auth_header |-> c.auth_header ]

\* get_new_topics (cc98.py:187-195) on what GET /topic/new did: the decoded
\* list on status 200, [] on any other status. (A raise is the caller's.)
get_new_topics(resp) == IF resp.status = 200 THEN resp.body ELSE << >>

\* get_posts (cc98.py:206-214), likewise
get_posts(resp) == IF resp.status = 200 THEN resp.body ELSE << >>

\* The mutant: the discovery keeps a client_id it found without a secret.
update_credentials_from_web_KeepsPartial(d) ==
    IF d = "found"
    THEN [client_id |-> "cid", client_secret |-> "csecret"]
    ELSE IF d = "no_match"
    THEN [client_id |-> "cid", client_secret |-> NoneStr]
    ELSE [client_id |-> NoneStr, client_secret |-> NoneStr]

\* _update_credentials_from_web (cc98.py:81-118); d names how far the
\* discovery got: "home_failed" (homepage not 200), "no_bundle" (no
\* main-<hex>.js in the page), "bundle_failed" (bundle not 200), "no_match"
\* (client_id or client_secret pattern absent), "raise" (a request raised),
\* "found". Only "found" assigns; every other outcome returns or is caught.
update_credentials_from_web(d) ==
    IF d = "found"
    THEN [client_id |-> "cid", client_secret |-> "csecret"]
    ELSE [client_id |-> NoneStr, client_secret |-> NoneStr]

\* --------------------------------------------------------- dingtalk.py, pure

\* send_dingtalk_message (dingtalk.py:21-35) on what the webhook did: kind
\* "unconfigured" (the URL or the signature is not set: logged, no
\* request), "raise" (requests.post raised), or kind "http" with a status
\* and a body that is JSON with an errcode (json_ok) or is not. Nothing in
\* the function catches: a raise of requests.post, of res.json() or of
\* ["errcode"] leaves the function.
send_dingtalk_message(resp) ==
    IF resp.kind = "unconfigured" THEN [raised |-> FALSE, delivered |-> FALSE]
    ELSE IF resp.kind = "raise" THEN [raised |-> TRUE, delivered |-> FALSE]
    ELSE IF resp.status # 200 THEN [raised |-> FALSE, delivered |-> FALSE]
    ELSE IF ~resp.json_ok THEN [raised |-> TRUE, delivered |-> FALSE]
    ELSE [raised |-> FALSE, delivered |-> resp.errcode = 0]

\* ------------------------------------------------------------- environment

\* The topics the forum can hold: what GET /topic/new returns for one topic,
\* less its id.
ShapeMatch ==                                   \* "Web Dev" on board 459
    [ boardId |-> 459, title |-> <<87, 101, 98, 32, 68, 101, 118>>,
      userName |-> "alice", time |-> <<50, 48, 50, 52, 45, 48, 53, 45, 48, 54,
      84, 48, 55, 58, 48, 56, 58, 48, 57, 46, 49, 50, 51>> ]
ShapeOtherBoard ==                              \* "web" on board 100
    [ boardId |-> 100, title |-> <<119, 101, 98>>,
      userName |-> "bob", time |-> <<50, 48, 50, 52, 45, 48, 53, 45, 48, 54,
      84, 48, 55, 58, 48, 56, 58, 48, 57, 46, 49, 50, 51>> ]
ShapeNoKeyword ==                               \* no keyword, board 459
    [ boardId |-> 459,
      title |-> <<32771, 35797, 21608, 27714, 33258, 20064, 23460>>,
      userName |-> "carol", time |-> <<50, 48, 50, 52, 45, 48, 53, 45, 48, 54,
      84, 48, 55, 58, 48, 56, 58, 48, 57, 46, 49, 50, 51>> ]
ShapeNullTime ==                                \* matching, "time": null
    [ boardId |-> 459,
      title |-> <<24613, 25307, 21069, 31471, 24320, 21457>>,
      userName |-> "dave", time |-> None ]

Shapes == {ShapeMatch, ShapeOtherBoard, ShapeNoKeyword, ShapeNullTime}

\* The topic with id i of forum f, as the API returns it.
TopicAt(f, i) ==
    [ id |-> i, boardId |-> f[i].boardId, title |-> f[i].title,
      userName |-> f[i].userName, time |-> f[i].time ]

\* The ids GET /topic/new?size=n covers: the n newest.
NewestIds(f, n) == { i \in 1..Len(f) : i > Len(f) - n }

\* Every order of the topics with the ids in S.
Orders(f, S) ==
    { [k \in 1..Cardinality(S) |-> TopicAt(f, p[k])] :
        p \in { q \in [1..Cardinality(S) -> S] :
                    \A a, b \in 1..Cardinality(S) : a # b => q[a] # q[b] } }

\* What GET /topic/new can do: raise, answer with an error status, answer
\* 200 with the newest topics in any order, or answer 200 with an empty
\* list (an expired session).
TopicResponses(f) ==
    { [kind |-> "raise", status |-> 0, body |-> << >>],
      [kind |-> "http", status |-> 401, body |-> << >>],
      [kind |-> "http", status |-> 200, body |-> << >>] }
    \cup { [kind |-> "http", status |-> 200, body |-> b] :
             b \in Orders(f, NewestIds(f, FetchSize)) }

\* What POST /connect/token does to main(): it raises, refuses or grants.
LoginResponses ==
    { [kind |-> "raise", status |-> 0, json |-> "invalid",
       access_token |-> NoneStr, refresh_token |-> NoneStr],
      [kind |-> "http", status |-> 400, json |-> "object",
       access_token |-> NoneStr, refresh_token |-> NoneStr],
      [kind |-> "http", status |-> 200, json |-> "object",
       access_token |-> "tokA", refresh_token |-> "refA"] }

\* Everything POST /connect/token can do: also another grant, a 200 whose
\* body is not JSON or is JSON but no object, and a 200 whose object lacks
\* the tokens or holds an empty access_token.
TokenResponses ==
    LoginResponses \cup
    { [kind |-> "http", status |-> 200, json |-> "object",
       access_token |-> "tokB", refresh_token |-> "refB"],
      [kind |-> "http", status |-> 200, json |-> "invalid",
       access_token |-> NoneStr, refresh_token |-> NoneStr],
      [kind |-> "http", status |-> 200, json |-> "other",
       access_token |-> NoneStr, refresh_token |-> NoneStr],
      [kind |-> "http", status |-> 200, json |-> "object",
       access_token |-> NoneStr, refresh_token |-> NoneStr],
      [kind |-> "http", status |-> 200, json |-> "object",
       access_token |-> "", refresh_token |-> "refB"] }

\* The board hierarchy of the forum, and one with "boards": null.
BoardTree ==
    << [ id |-> 1, name |-> "root", boards_null |-> FALSE,
         boards |-> << [id |-> 459, name |-> "jobs"],
                       [id |-> 100, name |-> "chat"] >> ] >>
BoardTreeNull ==
    << [ id |-> 1, name |-> "root", boards_null |-> TRUE, boards |-> << >> ] >>

\* What GET /board/all can do.
BoardResponses ==
    { [kind |-> "raise", status |-> 0, roots |-> << >>],
      [kind |-> "http", status |-> 500, roots |-> << >>],
      [kind |-> "http", status |-> 200, roots |-> BoardTree],
      [kind |-> "http", status |-> 200, roots |-> BoardTreeNull] }

\* What GET /topic/{id}/post?size=1 can do; the body is a list of posts.
PostResponses ==
    { [kind |-> "raise", status |-> 0, body |-> << >>],
      [kind |-> "http", status |-> 404, body |-> << >>],
      [kind |-> "http", status |-> 200, body |-> << >>],
      [kind |-> "http", status |-> 200,
       body |-> << [has_content |-> TRUE, content |-> <<104, 105>>] >>],
      [kind |-> "http", status |-> 200,
       body |-> << [has_content |-> FALSE, content |-> << >>] >>] }

\* The content main.py:128-134 ends with for a response of get_posts.
ContentOf(resp) ==
    IF resp.kind = "raise" THEN NoContentAvailable
    ELSE LET posts == get_posts(resp)
         IN  IF posts = << >> THEN NoContentAvailable
             ELSE IF posts[1].has_content THEN posts[1].content
             ELSE NoContent

\* What the webhook can do.
SendResponses ==
    { [kind |-> "unconfigured", status |-> 0, json_ok |-> FALSE, errcode |-> 0],
      [kind |-> "raise", status |-> 0, json_ok |-> FALSE, errcode |-> 0],
      [kind |-> "http", status |-> 500, json_ok |-> FALSE, errcode |-> 0],
      [kind |-> "http", status |-> 200, json_ok |-> FALSE, errcode |-> 0],
      [kind |-> "http", status |-> 200, json_ok |-> TRUE, errcode |-> 310000],
      [kind |-> "http", status |-> 200, json_ok |-> TRUE, errcode |-> 0] }

DiscoveryOutcomes ==
    {"home_failed", "no_bundle", "bundle_failed", "no_match", "raise", "found"}

\* ------------------------------------------------------------------- state

VARIABLES
    forum,          \* the forum's topics, oldest first; the id is the index
    pc,             \* where main() is
    client_id, client_secret,               \* CC98Client fields
    access_token, refresh_token,
    auth_header,    \* session.headers["Authorization"], NoneStr when absent
    board_map,
    max_id,         \* the high-water mark
    topics,         \* the list the last fetch assigned
    new_topics,     \* the sorted candidates of the cycle
    idx,            \* the position of the for loop in new_topics
    new_max_id,
    cyc,            \* history: what the current (or last) cycle did
    eval_prev,      \* history: ids evaluated in earlier cycles
    done_prev,      \* history: ids evaluated in earlier cycles that completed
    sent_prev,      \* history: ids dispatched in earlier cycles
    retry,          \* history: the candidates of the last cycle that had
                    \* any, when an exception cut it short
    last_msg,       \* history: the last message the cycle gave the webhook
    start_ids,      \* history: how many topics existed when main() started
    boot,           \* history: how the credential discovery, the initial
                    \* login and the baseline fetch went
    login_hist,     \* history: the calls of login() on a client on its own
    board_hist      \* history: the calls of get_board_name() on it

clientVars ==
    <<client_id, client_secret, access_token, refresh_token, auth_header>>
loopVars == <<max_id, topics, new_topics, idx, new_max_id>>
prevVars == <<eval_prev, done_prev, sent_prev, retry>>
histVars == <<cyc, prevVars, last_msg>>
callVars == <<login_hist, board_hist>>
vars ==
    <<forum, pc, clientVars, board_map, loopVars, histVars, start_ids, boot,
      callVars>>

\* The client fields login reads and writes.
Client ==
    [ client_id |-> client_id, client_secret |-> client_secret,
      access_token |-> access_token, refresh_token |-> refresh_token,
      auth_header |-> auth_header ]

\* The record of a cycle that has just begun with the mark at m: the first
\* fetch ("raise", "empty" or "some"), the logins and fetches made, whether
\* the candidates were selected, the ids evaluated and dispatched, in
\* order, the ids whose posts were requested, the content main.py:128-134
\* last arrived at, how it ended ("done", "empty" or "aborted") and, when
\* an exception ended it, the call that raised ("fetch", "rule", "format"
\* or "send").
NewCycle(m) ==
    [ mark0 |-> m, first |-> "none", logins |-> 0, login_ok |-> FALSE,
      fetches |-> 0, selected |-> FALSE, evaluated |-> << >>,
      dispatched |-> << >>, fetched |-> << >>, content |-> << >>,
      outcome |-> "running", raised_in |-> "none" ]

Range(s) == { s[i] : i \in 1..Len(s) }

\* The ids of a list of topics.
IdsOf(ts) == { ts[i].id : i \in 1..Len(ts) }

Init ==
    /\ forum = << >>
    /\ pc = "boot"
    /\ client_id = NoneStr /\ client_secret = NoneStr
    /\ access_token = NoneStr /\ refresh_token = NoneStr
    /\ auth_header = NoneStr
    /\ board_map = EmptyMap
    /\ max_id = 0
    /\ topics = << >>
    /\ new_topics = << >>
    /\ idx = 0
    /\ new_max_id = 0
    /\ cyc = NewCycle(0)
    /\ eval_prev = {}
    /\ done_prev = {}
    /\ sent_prev = {}
    /\ retry = {}
    /\ last_msg = << >>
    /\ start_ids = 0
    /\ boot = [discovery |-> "none", login |-> "none", fetch |-> "none"]
    /\ login_hist = << >>
    /\ board_hist = << >>

\* ------------------------------------------------- main.py, the decisions

\* The mutant: a failed initial login does not stop main().
PcAfterInitialLogin_GoesOn(ok) == "init_fetch"

\* main.py:75-77: `if not client.login(): ... return`
PcAfterInitialLogin(ok) == IF ok THEN "init_fetch" ELSE "exit"

\* The mutant: the running maximum starts from 0 instead of the mark.
StartNewMax_Zero(mark) == 0

\* main.py:112: new_max_id = max_id
StartNewMax(mark) == mark

\* The mutant: the running maximum is never raised.
AdvanceNewMax_Never(new_max, t_id) == new_max

\* main.py:149-150: if t_id > new_max_id: new_max_id = t_id
AdvanceNewMax(new_max, t_id) == IF t_id > new_max THEN t_id ELSE new_max

\* The mutant: the mark is not assigned at the end of the cycle.
MarkAfterCycle_Keeps(mark, new_max) == mark

\* main.py:152: max_id = new_max_id
MarkAfterCycle(mark, new_max) == new_max

\* The mutant: the except clause keeps what the cycle had reached.
MarkAfterRaise_Advances(mark, new_max) == new_max

\* main.py:157-159: the except clause logs and assigns nothing.
MarkAfterRaise(mark, new_max) == mark

\* The mutant: an exception in a cycle leaves the loop.
PcAfterRaise_Leaves == "exit"

\* main.py:96, 157-159: caught inside `while True`, so the loop goes on.
PcAfterRaise == "sleep"

\* main.py:106: if not topics
NeedsRelogin(ts) == ts = << >>

\* The mutant: the re-fetch does not depend on the re-login.
RefetchAfterLogin_Always(ok) == TRUE

\* main.py:108: if client.login(): topics = client.get_new_topics(...)
RefetchAfterLogin(ok) == ok

\* ----------------------------------------------------------------- actions

\* The forum gets a new topic; its id is the next one.
ForumPost ==
    /\ Len(forum) < MaxTopics
    /\ \E sh \in Shapes : forum' = Append(forum, sh)
    /\ UNCHANGED callVars
    /\ UNCHANGED <<pc, clientVars, board_map, loopVars, histVars,
                   start_ids, boot>>

\* main.py:72-74: CC98Client(), which ends with the credential discovery.
Construct ==
    /\ pc = "boot"
    /\ \E d \in DiscoveryOutcomes :
         LET c == update_credentials_from_web(d)
         IN  /\ client_id' = c.client_id
             /\ client_secret' = c.client_secret
             /\ boot' = [boot EXCEPT !.discovery = d]
    /\ pc' = "login"
    /\ start_ids' = Len(forum)
    /\ UNCHANGED <<forum, access_token, refresh_token, auth_header, board_map,
                   loopVars, histVars, callVars>>

\* The assignments of login() to the client, for its result r.
LoginEffect(r) ==
    /\ access_token' = r.access_token
    /\ refresh_token' = r.refresh_token
    /\ auth_header' = r.auth_header
    /\ UNCHANGED <<client_id, client_secret>>

\* main.py:75-77
InitialLogin ==
    /\ pc = "login"
    /\ \E resp \in LoginResponses :
         LET r == login(Client, resp)
         IN  /\ LoginEffect(r)
             /\ pc' = PcAfterInitialLogin(r.ok)
             /\ boot' = [boot EXCEPT !.login = IF r.ok THEN "ok" ELSE "failed"]
    /\ UNCHANGED callVars
    /\ UNCHANGED <<forum, board_map, loopVars, histVars, start_ids>>

\* main.py:79-94: the baseline
InitialFetch ==
    /\ pc = "init_fetch"
    /\ \E resp \in TopicResponses(forum) :
         IF resp.kind = "raise"
         THEN /\ pc' = "exit"
              /\ boot' = [boot EXCEPT !.fetch = "raised"]
              /\ UNCHANGED <<max_id, topics>>
         ELSE LET ts == get_new_topics(resp)
              IN  /\ topics' = ts
                  /\ max_id' = IF ts # << >> THEN MaxIdOf(ts) ELSE 0
                  /\ pc' = "sleep"
                  /\ boot' = [boot EXCEPT !.fetch =
                                IF resp.status = 200 THEN "ok" ELSE "http_error"]
    /\ cyc' = NewCycle(max_id')
    /\ UNCHANGED callVars
    /\ UNCHANGED <<forum, clientVars, board_map, new_topics, idx, new_max_id,
                   prevVars, last_msg, start_ids>>

\* main.py:97-98: time.sleep(INTERVAL) returns and a cycle begins.
Sleep ==
    /\ pc = "sleep"
    /\ pc' = "fetch"
    /\ cyc' = NewCycle(max_id)
    /\ eval_prev' = eval_prev \cup Range(cyc.evaluated)
    /\ done_prev' = IF cyc.outcome = "done"
                     THEN done_prev \cup Range(cyc.evaluated)
                     ELSE done_prev
    /\ sent_prev' = sent_prev \cup Range(cyc.dispatched)
    /\ retry' = IF ~cyc.selected THEN retry
                 ELSE IF cyc.outcome = "aborted" THEN IdsOf(new_topics)
                 ELSE {}
    /\ last_msg' = << >>
    /\ UNCHANGED callVars
    /\ UNCHANGED <<forum, clientVars, board_map, loopVars, start_ids, boot>>

\* main.py:157-159: an exception anywhere in the try block of a cycle; c is
\* the cycle's record so far and call names the call that raised.
Raise(c, call) ==
    /\ pc' = PcAfterRaise
    /\ max_id' = MarkAfterRaise(max_id, new_max_id)
    /\ cyc' = [c EXCEPT !.outcome = "aborted", !.raised_in = call]

\* main.py:111-118 and, when nothing is newer than the mark, 152-153: the
\* candidates of the batch ts, sorted.
SelectStep(ts, c) ==
    LET cand == SortById(NewerThan(ts, max_id))
    IN  /\ topics' = ts
        /\ new_max_id' = StartNewMax(max_id)
        /\ new_topics' = cand
        /\ IF cand = << >>
           THEN /\ pc' = "sleep"
                /\ max_id' = MarkAfterCycle(max_id, new_max_id')
                /\ idx' = idx
                /\ cyc' = [c EXCEPT !.selected = TRUE, !.outcome = "done"]
           ELSE /\ pc' = "process"
                /\ max_id' = max_id
                /\ idx' = 1
                /\ cyc' = [c EXCEPT !.selected = TRUE]

\* main.py:111-155: `if topics:` after the fetches of the cycle.
AfterFetches(ts, c) ==
    IF ts # << >>
    THEN SelectStep(ts, c)
    ELSE /\ pc' = "sleep"
         /\ topics' = ts
         /\ cyc' = [c EXCEPT !.outcome = "empty"]
         /\ UNCHANGED <<max_id, new_topics, idx, new_max_id>>

\* main.py:100-106: the first fetch of a cycle
Fetch ==
    /\ pc = "fetch"
    /\ \E resp \in TopicResponses(forum) :
         LET ts == get_new_topics(resp)
             c1 == [cyc EXCEPT !.fetches = @ + 1,
                               !.first = IF resp.kind = "raise" THEN "raise"
                                         ELSE IF ts = << >> THEN "empty"
                                         ELSE "some"]
         IN  IF resp.kind = "raise"
             THEN /\ Raise(c1, "fetch")
                  /\ UNCHANGED <<topics, new_topics, idx, new_max_id>>
             ELSE IF NeedsRelogin(ts)
             THEN /\ pc' = "relogin"
                  /\ topics' = ts
                  /\ cyc' = c1
                  /\ UNCHANGED <<max_id, new_topics, idx, new_max_id>>
             ELSE AfterFetches(ts, c1)
    /\ UNCHANGED callVars
    /\ UNCHANGED <<forum, clientVars, board_map, prevVars, last_msg,
                   start_ids, boot>>

\* main.py:107-108: the re-login
Relogin ==
    /\ pc = "relogin"
    /\ \E resp \in LoginResponses :
         LET r  == login(Client, resp)
             c1 == [cyc EXCEPT !.logins = @ + 1, !.login_ok = r.ok]
         IN  /\ LoginEffect(r)
             /\ IF RefetchAfterLogin(r.ok)
                THEN /\ pc' = "refetch"
                     /\ cyc' = c1
                     /\ UNCHANGED loopVars
                ELSE AfterFetches(topics, c1)
    /\ UNCHANGED callVars
    /\ UNCHANGED <<forum, board_map, prevVars, last_msg, start_ids, boot>>

\* main.py:109: the re-fetch
Refetch ==
    /\ pc = "refetch"
    /\ \E resp \in TopicResponses(forum) :
         LET c1 == [cyc EXCEPT !.fetches = @ + 1]
         IN  IF resp.kind = "raise"
             THEN /\ Raise(c1, "fetch")
                  /\ UNCHANGED <<topics, new_topics, idx, new_max_id>>
             ELSE AfterFetches(get_new_topics(resp), c1)
    /\ UNCHANGED callVars
    /\ UNCHANGED <<forum, clientVars, board_map, prevVars, last_msg,
                   start_ids, boot>>

\* The rule on every topic the forum can hold, computed once: whether
\* check_topic_condition raises and, when it does not, what it returns.
ShapeOf(topic) ==
    [ boardId |-> topic.boardId, title |-> topic.title,
      userName |-> topic.userName, time |-> topic.time ]
RuleTable ==
    [ sh \in Shapes |->
        [ raises  |-> CheckRaises(sh),
          matches |-> ~CheckRaises(sh) /\ check_topic_condition(sh) ] ]

\* Every value board_map can take: what refreshes can make of the empty map.
BoardMaps ==
    LET More(S) ==
            S \cup { refresh_board_map(m, r) : m \in S, r \in BoardResponses }
    IN  More(More({EmptyMap}))

\* The boards topics can be on.
BoardIds == { sh.boardId : sh \in Shapes }

\* What get_board_name can come to, over what the board requests it makes
\* can get; computed once for every map and board.
BoardNameResults ==
    [ m \in BoardMaps, board_id \in BoardIds |->
        { get_board_name(m, board_id, r1, r2) : r1, r2 \in BoardResponses } ]

\* The contents main.py:128-134 can end with.
Contents == { ContentOf(pr) : pr \in PostResponses }

\* What the call of send_dingtalk_message can come to.
SendResults == { send_dingtalk_message(sr) : sr \in SendResponses }

\* main.py:148-153: the end of an iteration that did not raise, and after
\* the last one the assignment of the mark; c is the cycle's record so far.
EndIteration(t_id, c) ==
    LET nm == AdvanceNewMax(new_max_id, t_id)
    IN  /\ new_max_id' = nm
        /\ IF idx = Len(new_topics)
           THEN /\ pc' = "sleep"
                /\ max_id' = MarkAfterCycle(max_id, nm)
                /\ idx' = idx
                /\ cyc' = [c EXCEPT !.outcome = "done"]
           ELSE /\ pc' = "process"
                /\ max_id' = max_id
                /\ idx' = idx + 1
                /\ cyc' = c

\* main.py:120-153: one iteration of the for loop and, after the last one,
\* the assignment of the mark.
ProcessTopic ==
    /\ pc = "process"
    /\ LET topic == new_topics[idx]
           t_id  == topic.id
           seen  == [cyc EXCEPT !.evaluated = Append(@, t_id)]
           rule  == RuleTable[ShapeOf(topic)]
       IN  IF rule.raises
           THEN /\ Raise(cyc, "rule")
                /\ UNCHANGED <<board_map, last_msg, idx, new_max_id>>
           ELSE \E bn \in BoardNameResults[board_map, topic.boardId] :
                /\ board_map' = bn.map
                /\ IF ~rule.matches
                   THEN /\ EndIteration(t_id, seen)
                        /\ UNCHANGED last_msg
                   ELSE \E content \in Contents :
                        LET got == [seen EXCEPT !.content = <<content>>,
                                                !.fetched = Append(@, t_id)]
                        IN
                        IF FormatRaises(topic, content)
                        THEN /\ Raise(got, "format")
                             /\ UNCHANGED <<last_msg, idx, new_max_id>>
                        ELSE IF DEBUG
                        THEN /\ EndIteration(t_id, got)
                             /\ UNCHANGED last_msg
                        ELSE \E sent \in SendResults :
                             LET c1 == [got EXCEPT
                                          !.dispatched = Append(@, t_id)]
                             IN  /\ last_msg' =
                                      << format_message(topic, bn.name, content) >>
                                 /\ IF sent.raised
                                    THEN /\ Raise(c1, "send")
                                         /\ UNCHANGED <<idx, new_max_id>>
                                    ELSE EndIteration(t_id, c1)
    /\ UNCHANGED callVars
    /\ UNCHANGED <<forum, clientVars, topics, new_topics, prevVars,
                   start_ids, boot>>

Next ==
    \/ ForumPost
    \/ Construct
    \/ InitialLogin
    \/ InitialFetch
    \/ Sleep
    \/ Fetch
    \/ Relogin
    \/ Refetch
    \/ ProcessTopic

Spec == Init /\ [][Next]_vars

\* The steps of main(): every call it makes returns or raises, so a step
\* that can be taken is taken.
MainStep ==
    \/ Construct
    \/ InitialLogin
    \/ InitialFetch
    \/ Sleep
    \/ Fetch
    \/ Relogin
    \/ Refetch
    \/ ProcessTopic

\* The forum of the liveness specification holds at most LiveTopics topics.
LivePost == Len(forum) < LiveTopics /\ ForumPost

LiveNext == LivePost \/ MainStep

LiveSpec == Init /\ [][LiveNext]_vars /\ WF_vars(MainStep)

\* ------------------------------------------------ the client, on its own

\* A call of login() as the client saw it: the fields before, what the
\* token endpoint did (NoRequest when it was not asked), what login()
\* returned and the fields after.
NoRequest ==
    [kind |-> "none", status |-> 0, json |-> "invalid",
     access_token |-> NoneStr, refresh_token |-> NoneStr]

\* client.login() (cc98.py:120-159) on a constructed client, whatever
\* called it and whatever the token endpoint does.
CallLogin ==
    /\ pc = "login"
    /\ Len(login_hist) < MaxLogins
    /\ \E resp \in TokenResponses :
         LET r == login(Client, resp)
         IN  /\ LoginEffect(r)
             /\ login_hist' = Append(login_hist,
                    [ before |-> Client,
                      resp   |-> IF r.requested THEN resp ELSE NoRequest,
                      ok     |-> r.ok,
                      after  |-> [Client EXCEPT
                                    !.access_token = r.access_token,
                                    !.refresh_token = r.refresh_token,
                                    !.auth_header = r.auth_header] ])
    /\ UNCHANGED <<forum, pc, board_map, loopVars, histVars, start_ids, boot,
                   board_hist>>

AuthNext == Construct \/ CallLogin

AuthSpec == Init /\ [][AuthNext]_vars

\* The boards get_board_name is asked for: those of the topics, a root
\* board and a board the forum does not have.
LookupIds == BoardIds \cup {1, 7}

\* The responses the refreshes of a call of get_board_name got, in order:
\* r1 when the map was empty before, r2 when the first lookup missed.
Consumed(before, refreshes, r1, r2) ==
    IF refreshes = 2 THEN <<r1, r2>>
    ELSE IF refreshes = 1
    THEN (IF before = EmptyMap THEN <<r1>> ELSE <<r2>>)
    ELSE << >>

\* client.get_board_name(board_id) (cc98.py:66-79) on a constructed client,
\* whatever GET /board/all does.
CallBoardName ==
    /\ pc = "login"
    /\ Len(board_hist) < MaxLookups
    /\ \E board_id \in LookupIds, r1, r2 \in BoardResponses :
         LET bn == get_board_name(board_map, board_id, r1, r2)
         IN  /\ board_map' = bn.map
             /\ board_hist' = Append(board_hist,
                    [ before    |-> board_map,
                      board_id  |-> board_id,
                      responses |-> Consumed(board_map, bn.refreshes, r1, r2),
                      refreshes |-> bn.refreshes,
                      name      |-> bn.name,
                      after     |-> bn.map ])
    /\ UNCHANGED <<forum, pc, clientVars, loopVars, histVars, start_ids, boot,
                   login_hist>>

BoardNext == Construct \/ CallBoardName

BoardSpec == Init /\ [][BoardNext]_vars

\* ------------------------------------------------------------------ claims

InLoop == pc \in {"sleep", "fetch", "relogin", "refetch", "process"}

\* The cycle is over: main() is back at the sleep.
CycleOver == pc = "sleep" /\ cyc.outcome # "running"

\* The ids of the fetched batch that are newer than the mark the cycle
\* began with.
NewInBatch == { i \in IdsOf(topics) : i > cyc.mark0 }

Max(a, b) == IF a > b THEN a ELSE b

\* C1: the high-water mark never decreases, in any step of any run: not in
\* a cycle that dispatched, matched nothing, fetched nothing, failed to log
\* in again or was cut short by an exception.
C1_MarkNeverDecreases == [][max_id' >= max_id]_vars

\* A cycle cut short by an exception after it had processed a topic.
C1_Witness ==
    cyc.selected /\ cyc.outcome = "aborted" /\ new_max_id > cyc.mark0

\* C2: every topic given to the webhook has an id greater than every id
\* that existed when main() started.
C2_NoOldTopicDispatched ==
    \A i \in Range(cyc.dispatched) \cup sent_prev : i > start_ids

\* C3: once a cycle has selected, its candidates are exactly the topics of
\* the fetched batch with an id above the mark the cycle began with; only
\* candidates are evaluated or dispatched, and a cycle that completes has
\* evaluated every one of them.
C3_CandidatesAreTheNewer ==
    /\ cyc.selected =>
         /\ IdsOf(new_topics) = NewInBatch
         /\ Len(new_topics) = Cardinality(NewInBatch)
         /\ cyc.outcome = "done" => Range(cyc.evaluated) = NewInBatch
    /\ Range(cyc.evaluated) \subseteq (IF cyc.selected THEN NewInBatch ELSE {})
    /\ Range(cyc.dispatched) \subseteq Range(cyc.evaluated)
    /\ \A i \in Range(cyc.evaluated) : i > cyc.mark0

\* A completed cycle whose batch held a topic at or below the mark and one
\* above it.
C3_Witness ==
    /\ CycleOver /\ cyc.outcome = "done"
    /\ cyc.evaluated # << >>
    /\ \E i \in IdsOf(topics) : i <= cyc.mark0

\* C4: the dispatches of a cycle are in strictly ascending id order.
C4_DispatchAscending ==
    \A a, b \in 1..Len(cyc.dispatched) :
        a < b => cyc.dispatched[a] < cyc.dispatched[b]

\* Two dispatches in a cycle whose batch came newest first.
C4_Witness ==
    /\ cyc.selected
    /\ Len(cyc.dispatched) = 2
    /\ Len(topics) = 2 /\ topics[1].id > topics[2].id

C6_MarkAfterCompletedCycle ==
    (CycleOver /\ cyc.outcome = "done") =>
        /\ topics # << >>
        /\ max_id = Max(cyc.mark0, MaxIdOf(topics))

\* A completed cycle whose batch held an old topic and a new one.
C6_Witness ==
    /\ CycleOver /\ cyc.outcome = "done"
    /\ max_id > cyc.mark0
    /\ \E i \in IdsOf(topics) : i <= cyc.mark0

\* C7: a cycle that an exception cut short leaves the mark where it was
\* when the cycle began; and the candidates of a cycle cut short are
\* candidates of the next cycle that selects, when its batch holds them.
C7_FailedCycleKeepsMark ==
    /\ cyc.outcome = "aborted" => max_id = cyc.mark0
    /\ cyc.selected => (retry \cap IdsOf(topics)) \subseteq IdsOf(new_topics)

\* A cycle cut short after it had processed a topic, itself the retry of a
\* cycle that was cut short.
C7_Witness ==
    /\ cyc.selected /\ cyc.outcome = "aborted"
    /\ new_max_id > cyc.mark0
    /\ retry # {}

\* C8: a cycle whose first fetch was empty logs in once and fetches again
\* exactly when that login succeeded; when it ends with nothing fetched the
\* mark is unchanged, nothing was dispatched and main() is still in its
\* loop. A cycle whose first fetch was not empty makes no login and no
\* second fetch.
C8_ReloginOnceOnEmpty ==
    /\ cyc.first = "some" => cyc.logins = 0 /\ cyc.fetches = 1
    /\ cyc.first = "raise" => cyc.logins = 0 /\ cyc.fetches = 1
    /\ (cyc.first = "empty" /\ pc \notin {"relogin"}) =>
          /\ cyc.logins = 1
          /\ cyc.fetches = (IF cyc.login_ok /\ pc # "refetch" THEN 2 ELSE 1)
    /\ (cyc.first = "empty" /\ pc = "relogin") =>
          cyc.logins = 0 /\ cyc.fetches = 1
    /\ (cyc.first = "empty" /\ cyc.outcome # "running") => pc = "sleep"
    /\ cyc.outcome = "empty" =>
          /\ pc = "sleep"
          /\ cyc.first = "empty"
          /\ max_id = cyc.mark0
          /\ cyc.dispatched = << >> /\ cyc.evaluated = << >>

\* A cycle that fetched nothing, logged in again, fetched nothing again and
\* ended.
C8_Witness ==
    /\ CycleOver /\ cyc.outcome = "empty"
    /\ cyc.login_ok /\ cyc.fetches = 2

\* C9: in the loop, every cycle ends and is followed by another one,
\* whatever failed in it.
C9_LoopGoesOn ==
    /\ [](InLoop => <>(pc = "sleep"))
    /\ [](pc = "sleep" => <>(pc = "fetch"))

\* A cycle has begun after one that an exception cut short.
C9_Witness == pc = "fetch" /\ retry # {}

\* C10: after a failed initial login main() has returned: no topic was
\* fetched, no cycle was entered and nothing was dispatched.
C10_FailedLoginAborts ==
    boot.login = "failed" =>
        /\ pc = "exit"
        /\ boot.fetch = "none"
        /\ topics = << >>
        /\ cyc = NewCycle(0)
        /\ sent_prev = {} /\ last_msg = << >>

\* The token endpoint refused the login of a client that had credentials.
C10_Witness ==
    boot.login = "failed" /\ ~Falsy(client_id) /\ pc = "exit"

\* C11: after an initial baseline fetch that failed, by a network error or
\* by an unsuccessful HTTP response, main() has returned: it never entered
\* the loop and dispatched nothing.
C11_FailedBaselineAborts ==
    boot.fetch \in {"raised", "http_error"} =>
        /\ pc = "exit"
        /\ cyc = NewCycle(0)
        /\ sent_prev = {} /\ last_msg = << >>

\* The token endpoint answered the call h with a status other than 200, or
\* the call raised inside login(): the request raised, or the body of a
\* 200 could not be decoded into an object.
LoginFailedInside(h) ==
    \/ h.resp.kind = "raise"
    \/ h.resp.kind = "http" /\ h.resp.status # 200
    \/ h.resp.kind = "http" /\ h.resp.status = 200 /\ h.resp.json # "object"

\* C12: a call of login() that got a status other than 200, or raised
\* inside, returned false and left access_token, refresh_token and the
\* Authorization header as they were before it, whatever they were.
C12_FailedLoginKeepsTokens ==
    \A i \in 1..Len(login_hist) :
        LoginFailedInside(login_hist[i]) =>
            /\ ~login_hist[i].ok
            /\ login_hist[i].after = login_hist[i].before

\* A refused login and a login with an undecodable answer, each on a
\* client that held the tokens of an earlier login.
C12_Witness ==
    /\ \E i \in 1..Len(login_hist) :
         /\ login_hist[i].resp.kind = "http" /\ login_hist[i].resp.status = 400
         /\ login_hist[i].before.access_token = "tokB"
    /\ \E i \in 1..Len(login_hist) :
         /\ login_hist[i].resp.status = 200 /\ login_hist[i].resp.json = "invalid"
         /\ login_hist[i].before.auth_header = "Bearer tokB"

\* C13: when the credential discovery failed, at whatever step, the client
\* was still constructed, with client_id and client_secret unset; every
\* login() on it returned false without a request to the token endpoint,
\* and the tokens and the Authorization header are as construction left
\* them.
C13_NoCredentialsNoLogin ==
    boot.discovery \notin {"none", "found"} =>
        /\ pc = "login"
        /\ client_id = NoneStr /\ client_secret = NoneStr
        /\ \A i \in 1..Len(login_hist) :
             /\ ~login_hist[i].ok
             /\ login_hist[i].resp = NoRequest
             /\ login_hist[i].after = login_hist[i].before
        /\ access_token = NoneStr /\ refresh_token = NoneStr
        /\ auth_header = NoneStr

\* Two logins on a client whose discovery found the bundle but not both
\* credentials in it.
C13_Witness == boot.discovery = "no_match" /\ Len(login_hist) = 2

\* C14: no failure of the webhook call for a matched topic reaches the
\* poller: whatever the webhook did, the exception handler of the cycle is
\* never entered from the call of send_dingtalk_message, so the remaining
\* candidates are processed and the mark is advanced at the end of the
\* cycle.
C14_DeliveryFailureContained ==
    /\ cyc.raised_in # "send"
    /\ (CycleOver /\ cyc.dispatched # << >>) =>
          /\ cyc.outcome = "done"
          /\ Range(cyc.evaluated) = IdsOf(new_topics)
          /\ max_id >= cyc.dispatched[Len(cyc.dispatched)]

\* C15: when the content fetch for a matched topic failed or returned
\* nothing, so that the content is the placeholder, and the message could
\* be formatted, the topic is given to the webhook with the placeholder as
\* its content, and the cycle goes on from that topic: no exception ends
\* it there.
C15_PlaceholderDispatched ==
    (cyc.content = <<NoContentAvailable>> /\ cyc.raised_in # "format") =>
        /\ cyc.dispatched # << >>
        /\ last_msg # << >> /\ last_msg[1].content = NoContentAvailable
        /\ cyc.raised_in # "send"

\* The part of C15 that is about the content alone: the message given to
\* the webhook for such a topic carries the placeholder.
C15_PlaceholderInMessage ==
    (cyc.content = <<NoContentAvailable>> /\ cyc.raised_in # "format") =>
        /\ cyc.dispatched # << >>
        /\ last_msg # << >> /\ last_msg[1].content = NoContentAvailable

\* C16: get_board_name(id) always returns. A call on an empty mapping
\* refreshes before it answers; a call on a non-empty mapping refreshes
\* exactly once when the board is not in it and not at all when it is, and
\* then answers the stored name. "Unknown Board (<id>)" is returned only
\* when the lookup after the last refresh missed as the one before it did;
\* every other answer is the name the mapping holds.
C16_BoardNameLookups ==
    \A i \in 1..Len(board_hist) :
        LET h == board_hist[i]
            hit(m) == h.board_id \in DOMAIN m
        IN  /\ h.refreshes \in 0..2
            /\ h.before = EmptyMap => h.refreshes >= 1
            /\ (h.before # EmptyMap /\ ~hit(h.before)) => h.refreshes = 1
            /\ (h.before # EmptyMap /\ hit(h.before)) =>
                   /\ h.refreshes = 0
                   /\ h.after = h.before
                   /\ h.name = h.before[h.board_id]
            /\ h.name = UnknownBoard(h.board_id) =>
                   /\ h.refreshes >= 1
                   /\ ~hit(h.after)
                   /\ h.before = EmptyMap => h.refreshes = 2
            /\ h.name # UnknownBoard(h.board_id) =>
                   hit(h.after) /\ h.name = h.after[h.board_id]

\* A lookup on an empty mapping that refreshed twice and found nothing,
\* and a lookup of a missing board, on a mapping that had boards, whose
\* refresh raised.
C16_Witness ==
    /\ \E i \in 1..Len(board_hist) :
         /\ board_hist[i].before = EmptyMap
         /\ board_hist[i].refreshes = 2
         /\ board_hist[i].name = UnknownBoard(board_hist[i].board_id)
    /\ \E i \in 1..Len(board_hist) :
         /\ board_hist[i].before # EmptyMap
         /\ board_hist[i].board_id \notin DOMAIN board_hist[i].before
         /\ board_hist[i].refreshes = 1
         /\ board_hist[i].responses[1].kind = "raise"
         /\ board_hist[i].name = UnknownBoard(board_hist[i].board_id)

\* The refresh that got the response r failed: GET /board/all raised, or
\* the walk of the hierarchy raised (a root whose "boards" is null).
RefreshFailed(r) ==
    \/ r.kind = "raise"
    \/ /\ r.kind = "http" /\ r.status = 200
       /\ \E k \in 1..Len(r.roots) : r.roots[k].boards_null

\* C17: a call of get_board_name all of whose refreshes failed, in the
\* fetch or in the walk, returned and left the board mapping exactly as it
\* was before.
C17_FailedRefreshKeepsMap ==
    \A i \in 1..Len(board_hist) :
        ( /\ board_hist[i].refreshes >= 1
          /\ \A k \in 1..board_hist[i].refreshes :
                 RefreshFailed(board_hist[i].responses[k]) )
        => board_hist[i].after = board_hist[i].before

\* The part of C17 that is about the fetch: refreshes whose GET /board/all
\* raised or answered with an error status leave the mapping as it was.
C17_FailedFetchKeepsMap ==
    \A i \in 1..Len(board_hist) :
        ( /\ board_hist[i].refreshes >= 1
          /\ \A k \in 1..board_hist[i].refreshes :
                 \/ board_hist[i].responses[k].kind = "raise"
                 \/ board_hist[i].responses[k].status # 200 )
        => board_hist[i].after = board_hist[i].before

\* The rule as C18 words it, on every topic the forum can hold: the board
\* is 459 and the lowercased title contains a keyword.
OnBoard459WithKeyword ==
    [ sh \in Shapes |->
        /\ sh.boardId = 459
        /\ \E kw \in KEYWORDS : Contains(Lower(sh.title), kw) ]

\* The last id the cycle evaluated, 0 when it evaluated none.
LastEvaluated ==
    IF cyc.evaluated = << >> THEN 0 ELSE cyc.evaluated[Len(cyc.evaluated)]

\* C18: when a cycle is over, each of its candidates was given to the
\* webhook if and only if it is on board 459 with a keyword in its
\* lowercased title.
C18_CandidateDispatchedIffMatch ==
    (CycleOver /\ cyc.selected) =>
        \A i \in IdsOf(new_topics) :
            i \in Range(cyc.dispatched) <=> OnBoard459WithKeyword[forum[i]]

\* The part of C18 that is about the rule alone: a candidate the cycle
\* evaluated was given to the webhook if and only if it is on board 459
\* with a keyword in its lowercased title, but for a matching one whose
\* message could not be formatted, the exception ending the cycle there.
\* Posts are requested for matching candidates only. A non-matching
\* candidate raises the running maximum at once, and the mark when the
\* cycle completes.
C18_EvaluatedDispatchedIffMatch ==
    /\ \A i \in Range(cyc.dispatched) \cup Range(cyc.fetched) :
           i \in Range(cyc.evaluated) /\ OnBoard459WithKeyword[forum[i]]
    /\ \A i \in Range(cyc.evaluated) :
           IF OnBoard459WithKeyword[forum[i]]
           THEN /\ i \in Range(cyc.fetched)
                /\ \/ i \in Range(cyc.dispatched)
                   \/ cyc.raised_in = "format" /\ i = LastEvaluated
           ELSE /\ i \notin Range(cyc.fetched)
                /\ i \notin Range(cyc.dispatched)
                /\ new_max_id >= i
                /\ (CycleOver /\ cyc.outcome = "done") => max_id >= i

\* C19: no topic is given to the webhook more than once: not twice in a
\* cycle, and not in a cycle after one that had given it, whether or not an
\* exception cut that one short.
C19_DispatchedAtMostOnce ==
    /\ Range(cyc.dispatched) \cap sent_prev = {}
    /\ \A a, b \in 1..Len(cyc.dispatched) :
           a # b => cyc.dispatched[a] # cyc.dispatched[b]

\* The part of C19 that is about cycles that complete: a topic given to
\* the webhook in a cycle that completed is given to it in no later cycle.
C19_OnceAfterCompletedCycle ==
    Range(cyc.dispatched) \cap done_prev = {}

\* The calls of login() that returned true.
SuccessfulLogins == { i \in 1..Len(login_hist) : login_hist[i].ok }

\* The header carries the token the most recent successful login was
\* granted, and there is no header before the first one.
HeaderFromLastLogin ==
    IF SuccessfulLogins = {}
    THEN auth_header = NoneStr
    ELSE LET last == CHOOSE i \in SuccessfulLogins :
                         \A k \in SuccessfulLogins : k <= i
         IN  /\ auth_header = "Bearer " \o login_hist[last].resp.access_token
             /\ access_token = login_hist[last].resp.access_token

\* C20: after every login() that returned true the access_token is
\* non-empty and the Authorization header is "Bearer " followed by it; and
\* the header, when there is one, carries the token of the most recent
\* successful login.
C20_TrueLoginHasToken ==
    /\ \A i \in SuccessfulLogins :
         /\ ~Falsy(login_hist[i].after.access_token)
         /\ login_hist[i].after.auth_header =
                "Bearer " \o login_hist[i].after.access_token
    /\ HeaderFromLastLogin

====
